---- MODULE Spec2Model ----
(***************************************************************************)
(* State-machine model of deep_chem/scripts/modeler.py: the command-line   *)
(* pipeline featurize -> train-test-split -> fit -> eval and the combined  *)
(* `model` command.                                                        *)
(*                                                                         *)
(* One behaviour is one run: either main() on a parsed command line        *)
(* (entry through args.func), or a direct call of the module function      *)
(* _featurize_input by an importing program.  External library calls      *)
(* (the deep_chem utils and models packages) either return or raise; their *)
(* results are kept as symbolic records of what they were called with.     *)
(*                                                                         *)
(* Reading of the source: the text between the ''' of line 379 and the ''' *)
(* of line 405 is one string literal, so `_featurize_inputs` (lines        *)
(* 394-403) is not a function of the module and lines 406-418 are the body *)
(* of _featurize_input.  The header `def _train_test_inputs(...)` of lines *)
(* 461-463 has no body; it is read as an unfinished stub nobody calls.     *)
(***************************************************************************)
EXTENDS Integers, Sequences, FiniteSets, TLC

\* Longest --output-transforms string drawn, in characters.
MaxLen == 3
\* Longest --fields / --field-types list drawn.
MaxFields == 2

VARIABLES
  args,      \* the argparse namespace handed to args.func (a record)
  pc,        \* position of the single thread of control
  ret,       \* where the running stage function returns to
  frame,     \* parameters and locals of the running stage function
  err,       \* the exception the run ended in, NoErr while none
  stageLog,  \* stage functions entered, in order
  libCalls,  \* library calls of _featurize_input that returned, in order
  evalLog,   \* one record per _eval_trained_model call, in order
  fitLog,    \* one record per _fit_model call, in order
  featdir,   \* artifacts the featurize stage has written
  bundles,   \* saved dataset bundles, by path
  models,    \* saved model artifacts, by path
  reports,   \* written csv / stats files, by path
  written,   \* paths written during this run
  pool       \* worker processes started by a process pool

logVars == <<stageLog, libCalls, evalLog, fitLog>>
fsVars == <<featdir, bundles, models, reports, written>>
vars == <<args, pc, ret, frame, err, logVars, fsVars, pool>>

NoErr == [exc |-> "none", what |-> ""]
NoFrame == [fn |-> "none"]
EmptyFiles == [p \in {} |-> NoFrame]
None == "None"

(***************************************************************************)
(* Strings the code takes apart are sequences of one-character strings.    *)
(***************************************************************************)
RECURSIVE SeqsUpTo(_, _)
SeqsUpTo(S, n) ==
  IF n = 0 THEN {<<>>}
  ELSE LET shorter == SeqsUpTo(S, n - 1)
       IN shorter \cup {Append(s, c) : s \in {t \in shorter : Len(t) = n - 1}, c \in S}

\* str.split(","): the pieces between commas, empty pieces kept, so that a
\* string with k commas gives k + 1 pieces ("" gives [""]).
RECURSIVE SplitFrom(_, _, _)
SplitFrom(s, i, cur) ==
  IF i > Len(s) THEN <<cur>>
  ELSE IF s[i] = "," THEN <<cur>> \o SplitFrom(s, i + 1, <<>>)
  ELSE SplitFrom(s, i + 1, Append(cur, s[i]))

Split(s) == SplitFrom(s, 1, <<>>)

NoneString == <<"N", "o", "n", "e">>

(***************************************************************************)
(* argparse: the namespaces each subcommand's parser produces.             *)
(***************************************************************************)
ModelChoices ==
  {"logistic", "rf_classifier", "rf_regressor", "linear", "ridge", "lasso",
   "lasso_lars", "elastic_net", "singletask_deep_network",
   "multitask_deep_network", "3D_cnn"}

TaskTypes == {"classification", "regression"}

EvalModelTypes == {"sklearn", "keras-graph", "keras-sequential"}

InputTransformLists == {<<>>, <<"normalize-and-truncate">>}

\* --output-transforms values: any string up to MaxLen over a transform
\* letter and the comma, and the word None.
OutputTransformStrings == SeqsUpTo({"l", ","}, MaxLen) \cup {NoneString}

FieldLists == SeqsUpTo({"smiles", "pIC50"}, MaxFields)
FieldTypeLists == SeqsUpTo({"string", "float"}, MaxFields)
IdFields == {None, "mol_id"}
SmilesFields == {"smiles", "smi"}

\* The flags of add_featurize_group, with the values that matter to control
\* flow drawn and the others fixed.
add_featurize_group(fields, field_types, id_field) ==
  [input_files |-> <<"in.csv">>, input_type |-> "csv", delimiter |-> ",",
   fields |-> fields, field_types |-> field_types,
   feature_fields |-> None, target_fields |-> <<"pIC50">>,
   split_field |-> None, smiles_field |-> "smiles", id_field |-> id_field,
   threshold |-> None, name |-> "ds", out |-> "/o",
   func |-> "featurize_input"]

add_train_test_command(ot, it) ==
  [input_transforms |-> it, output_transforms |-> ot,
   feature_types |-> <<"f", ",", "d">>, paths |-> <<"/o/ds">>,
   splittype |-> "scaffold", weight_positives |-> FALSE,
   mode |-> "singletask", train_out |-> "/o/tr.joblib",
   test_out |-> "/o/te.joblib", func |-> "train_test_input"]

add_model_group(model) ==
  [model |-> model, n_hidden |-> "500", learning_rate |-> "0.01",
   dropout |-> "0.5", n_epochs |-> "50", batch_size |-> "32",
   loss_function |-> "mean_squared_error", decay |-> "1e-4",
   validation_split |-> "0.0"]

add_fit_command(model, task_type) ==
  [task_type |-> task_type, saved_data |-> "/o/tr.joblib",
   saved_out |-> "/o/m.joblib", func |-> "fit_model"]
    @@ add_model_group(model)

add_eval_command(modeltype, task_type, aucs, accuracy, recall, mcc, r2s, rms) ==
  [saved_model |-> "/o/m.joblib", saved_data |-> "/o/te.joblib",
   modeltype |-> modeltype, task_type |-> task_type,
   compute_aucs |-> aucs, compute_accuracy |-> accuracy,
   compute_recall |-> recall, compute_matthews_corrcoef |-> mcc,
   compute_r2s |-> r2s, compute_rms |-> rms,
   csv_out |-> "/o/te.csv", stats_out |-> "/o/te-stats.txt",
   func |-> "eval_trained_model"]

\* model_cmd.set_defaults(func=create_model) comes after the featurize
\* group's set_defaults on the same parser, so it wins.
add_model_command(skipF, skipS, skipFit, fields, field_types, id_field, ot, it, model, task_type) ==
  [skip_featurization |-> skipF, skip_train_test_split |-> skipS,
   skip_fit |-> skipFit, func |-> "create_model",
   input_transforms |-> it, output_transforms |-> ot,
   mode |-> "singletask", feature_types |-> <<"f", ",", "d">>,
   splittype |-> "scaffold", task_type |-> task_type]
    @@ add_model_group(model)
    @@ add_featurize_group(fields, field_types, id_field)

(***************************************************************************)
(* Attribute and name lookup of a handler's call expression.  Python       *)
(* evaluates the callee name first and the arguments left to right; the    *)
(* first lookup that fails ends the call before the callee is entered.     *)
(***************************************************************************)
\* Functions the module binds at top level (the defs outside string
\* literals) that a handler may call.
ModuleFunctions ==
  {"create_model", "featurize_input", "_featurize_input", "train_test_input",
   "_train_test_input", "fit_model", "_fit_model", "get_model_type",
   "get_model_extension", "eval_trained_model", "_eval_trained_model", "main"}

RECURSIVE FirstMissing(_, _)
FirstMissing(ns, reads) ==
  IF reads = <<>> THEN "none"
  ELSE IF Head(reads) \notin DOMAIN ns THEN Head(reads)
  ELSE FirstMissing(ns, Tail(reads))

CallOutcome(callee, ns, reads) ==
  IF callee \notin ModuleFunctions THEN [exc |-> "NameError", what |-> callee]
  ELSE IF FirstMissing(ns, reads) # "none"
       THEN [exc |-> "AttributeError", what |-> FirstMissing(ns, reads)]
       ELSE NoErr

FeaturizeReads ==
  <<"name", "out", "input_file", "input_type", "fields", "field_types",
    "feature_fields", "target_fields", "smiles_field", "split_field",
    "id_field", "threshold", "delimiter">>

\* Variant: the pool wrapper is a function of the module and the handler
\* reads the flag the parser defines.
featurize_input_pooled(ns) ==
  CallOutcome("_featurize_input", ns,
              <<"name", "out", "input_files", "input_type", "fields">>)

\* featurize_input(args): the call expression of the featurize handler.
featurize_input(ns) == CallOutcome("_featurize_inputs", ns, FeaturizeReads)

\* train_test_input(args)
train_test_input(ns) ==
  CallOutcome("_train_test_input", ns,
              <<"paths", "output_transforms", "input_transforms",
                "feature_types", "splittype", "mode", "train_out", "test_out",
                "target_fields">>)

FitReads ==
  <<"model", "task_type", "n_hidden", "learning_rate", "dropout", "n_epochs",
    "decay", "batch_size", "loss_function", "validation_split">>

\* fit_model(args)
fit_model(ns) ==
  CallOutcome("_fit_model", ns,
              FitReads \o <<"saved_out", "saved_data", "target_fields">>)

\* eval_trained_model(args)
eval_trained_model(ns) ==
  CallOutcome("_eval_trained_model", ns,
              <<"modeltype", "saved_model", "saved_data", "task_type",
                "compute_aucs", "compute_recall", "compute_accuracy",
                "compute_matthews_corrcoef", "compute_r2s", "compute_rms",
                "csv_out", "stats_out", "target_fields">>)

\* create_model: the reads up to and including the _featurize_input call.
create_model_featurize(ns) ==
  IF FirstMissing(ns, <<"out", "name", "skip_featurization">>) # "none"
  THEN [exc |-> "AttributeError",
        what |-> FirstMissing(ns, <<"out", "name", "skip_featurization">>)]
  ELSE IF ns.skip_featurization THEN NoErr
  ELSE CallOutcome("_featurize_input", ns, FeaturizeReads)

\* create_model: the reads of the _train_test_input call.
create_model_split(ns) ==
  IF FirstMissing(ns, <<"name", "skip_train_test_split">>) # "none"
  THEN [exc |-> "AttributeError",
        what |-> FirstMissing(ns, <<"name", "skip_train_test_split">>)]
  ELSE IF ns.skip_train_test_split THEN NoErr
  ELSE CallOutcome("_train_test_input", ns,
                   <<"output_transforms", "input_transforms", "feature_types",
                     "splittype", "mode", "target_fields">>)

\* create_model: the reads of the _fit_model call.
create_model_fit(ns) ==
  IF FirstMissing(ns, <<"model", "skip_fit">>) # "none"
  THEN [exc |-> "AttributeError",
        what |-> FirstMissing(ns, <<"model", "skip_fit">>)]
  ELSE IF ns.skip_fit THEN NoErr
  ELSE CallOutcome("_fit_model", ns, FitReads \o <<"target_fields">>)

\* create_model: the reads of either _eval_trained_model call.
create_model_eval(ns) ==
  CallOutcome("_eval_trained_model", ns, <<"name", "task_type", "target_fields">>)

(***************************************************************************)
(* Paths and tags create_model computes.                                   *)
(***************************************************************************)
\* os.path.join(a, b)
PathJoin(a, b) == a \o "/" \o b

DataDir(ns) == PathJoin(ns.out, ns.name)
TrainOut(ns) == PathJoin(DataDir(ns), ns.name \o "-train.joblib")
\* Variant: the test path is built from the train file name.
TestOutAsTrain(ns) == PathJoin(DataDir(ns), ns.name \o "-train.joblib")

TestOut(ns) == PathJoin(DataDir(ns), ns.name \o "-test.joblib")

get_model_type(model) ==
  IF model \in {"singletask_deep_network", "multitask_deep_network"}
  THEN "keras-graph"
  ELSE IF model \in {"3D_cnn"} THEN "keras-sequential"
  ELSE IF model = "neural_fingerprint" THEN "autograd"
  ELSE "sklearn"

\* Variant: the last branch tests keras-graph alone.
get_model_extension_graph_only(modeltype) ==
  IF modeltype = "sklearn" THEN "joblib"
  ELSE IF modeltype = "autograd" THEN "joblib.gz"
  ELSE IF modeltype = "keras-graph" THEN "h5"
  ELSE None

\* A modeltype no branch names falls off the end of the function: None.
get_model_extension(modeltype) ==
  IF modeltype = "sklearn" THEN "joblib"
  ELSE IF modeltype = "autograd" THEN "joblib.gz"
  ELSE IF modeltype = "keras-graph" \/ modeltype = "keras-sequential" THEN "h5"
  ELSE None

SavedOut(ns) ==
  PathJoin(DataDir(ns),
           ns.model \o "." \o get_model_extension(get_model_type(ns.model)))

CsvOutTrain(ns) == PathJoin(DataDir(ns), ns.name \o "-train.csv")
StatsOutTrain(ns) == PathJoin(DataDir(ns), ns.name \o "-train-stats.txt")
CsvOutTest(ns) == PathJoin(DataDir(ns), ns.name \o "-test.csv")
StatsOutTest(ns) == PathJoin(DataDir(ns), ns.name \o "-test-stats.txt")

\* The compute_* flags create_model derives from the task type, as the set
\* of metrics switched on.
ClassificationMetrics == {"aucs", "recall", "accuracy", "matthews_corrcoef"}
RegressionMetrics == {"r2s", "rms"}

\* Variant: the regression branch is an else that keeps the flags off.
MetricsForClassificationOnly(task_type) ==
  IF task_type = "classification" THEN ClassificationMetrics ELSE {}

MetricsFor(task_type) ==
  IF task_type = "classification" THEN ClassificationMetrics
  ELSE IF task_type = "regression" THEN RegressionMetrics
  ELSE {}

\* The compute_* flags of an `eval` namespace, as the set switched on.
MetricsOf(ns) ==
  {m \in ClassificationMetrics \cup RegressionMetrics :
     \/ m = "aucs" /\ ns.compute_aucs
     \/ m = "recall" /\ ns.compute_recall
     \/ m = "accuracy" /\ ns.compute_accuracy
     \/ m = "matthews_corrcoef" /\ ns.compute_matthews_corrcoef
     \/ m = "r2s" /\ ns.compute_r2s
     \/ m = "rms" /\ ns.compute_rms}

(***************************************************************************)
(* Raising.  Neither main() nor any stage has a try/except: an exception   *)
(* unwinds to the interpreter and the run is over.                         *)
(***************************************************************************)
\* Variant: the failed step is attempted again.
AfterRaiseRetry(at) == at

AfterRaise(at) == "raised"

Raise(e) ==
  /\ err' = e
  /\ pc' = AfterRaise(pc)
  /\ UNCHANGED <<args, ret, frame, logVars, fsVars, pool>>

LibraryError(fn) == [exc |-> "LibraryError", what |-> fn]

\* The running stage function returns to its caller.
Return ==
  /\ pc' = ret
  /\ ret' = "done"
  /\ frame' = NoFrame

(***************************************************************************)
(* _featurize_input                                                        *)
(***************************************************************************)
FeaturizeFrame(name, out, input_file, input_type, fields, field_types, feature_fields, target_fields, smiles_field, split_field, id_field, threshold, delimiter) ==
  [fn |-> "_featurize_input", name |-> name, out |-> out,
   input_file |-> input_file, input_type |-> input_type, fields |-> fields,
   field_types |-> field_types, feature_fields |-> feature_fields,
   target_fields |-> target_fields, smiles_field |-> smiles_field,
   split_field |-> split_field, id_field |-> id_field,
   threshold |-> threshold, delimiter |-> delimiter]

\* Variant: only a surplus of fields is rejected.
FieldCountSurplus(fields, field_types) == Len(fields) > Len(field_types)

FieldCountMismatch(fields, field_types) == Len(fields) # Len(field_types)

\* Variant: the id field is passed on as given, None included.
DefaultIdFieldAsGiven(id_field, smiles_field) == id_field

DefaultIdField(id_field, smiles_field) ==
  IF id_field = None THEN smiles_field ELSE id_field

\* The validation and the id default.
FzValidate ==
  /\ pc = "fz_validate"
  /\ IF FieldCountMismatch(frame.fields, frame.field_types)
     THEN Raise([exc |-> "ValueError",
                 what |-> "number of fields does not equal number of field types"])
     ELSE /\ frame' = [frame EXCEPT
                         !.id_field = DefaultIdField(@, frame.smiles_field)]
          /\ pc' = "fz_dirs"
          /\ UNCHANGED <<args, ret, err, logVars, fsVars, pool>>

\* One library call of the body: it raises, or it returns having written
\* `artifact` (when it writes one) under the dataset directory.
FzCall(at, fn, ids, artifacts, next) ==
  /\ pc = at
  /\ \E ok \in BOOLEAN :
       IF ok
       THEN /\ libCalls' = Append(libCalls,
                                  [fn |-> fn, smiles_field |-> ids[1], id_field |-> ids[2]])
            /\ featdir' = featdir \cup
                 {PathJoin(PathJoin(frame.out, frame.name), a) : a \in artifacts}
            /\ written' = written \cup
                 {PathJoin(PathJoin(frame.out, frame.name), a) : a \in artifacts}
            /\ IF next = "return"
               THEN Return
               ELSE pc' = next /\ UNCHANGED <<ret, frame>>
            /\ UNCHANGED <<args, err, stageLog, evalLog, fitLog, bundles,
                           models, reports, pool>>
       ELSE Raise(LibraryError(fn))

NoIds == <<"-", "-">>
FrameIds == <<frame.smiles_field, frame.id_field>>

FzGenerateDirectories ==
  FzCall("fz_dirs", "generate_directories", NoIds, {"dirs"}, "fz_extract")

FzExtractData ==
  FzCall("fz_extract", "extract_data", <<frame.smiles_field, "-">>, {}, "fz_targets")

FzGenerateTargets ==
  FzCall("fz_targets", "generate_targets", FrameIds, {"targets"}, "fz_features")

FzGenerateFeatures ==
  FzCall("fz_features", "generate_features", FrameIds, {"features"},
         "fz_fingerprints")

FzFingerprints ==
  FzCall("fz_fingerprints", "generate_vs_utils_features:fingerprints",
         FrameIds, {"fingerprints"}, "fz_descriptors")

FzDescriptors ==
  FzCall("fz_descriptors", "generate_vs_utils_features:descriptors",
         FrameIds, {"descriptors"}, "return")

(***************************************************************************)
(* _train_test_input                                                       *)
(***************************************************************************)
TrainTestFrame(paths, output_transforms, input_transforms, feature_types, splittype, mode, train_out, test_out, target_names) ==
  [fn |-> "_train_test_input", paths |-> paths,
   output_transforms |-> output_transforms,
   input_transforms |-> input_transforms, feature_types |-> feature_types,
   splittype |-> splittype, mode |-> mode, train_out |-> train_out,
   test_out |-> test_out, target_names |-> target_names]

\* Variant: only the empty string means no transforms.
ParseOutputTransformsEmptyOnly(output_transforms) ==
  IF output_transforms = <<>> THEN <<>> ELSE Split(output_transforms)

ParseOutputTransforms(output_transforms) ==
  IF output_transforms = <<>> \/ output_transforms = NoneString
  THEN <<>>
  ELSE Split(output_transforms)

\* What process_datasets returns for one split: the raw dataset, known by
\* what it was made from.
ProcessDatasets(split, f) ==
  [split |-> split, paths |-> f.paths, feature_types |-> f.feature_types,
   splittype |-> f.splittype, mode |-> f.mode, target_names |-> f.target_names]

\* What transform_data returns: the dataset with the transforms applied.
TransformData(data, input_transforms, output_transforms) ==
  [data |-> data, input_transforms |-> input_transforms,
   output_transforms |-> output_transforms]

\* Variant: both keys in the plural.
TransformsPlural(input_transforms, output_transforms) ==
  [input_transforms |-> input_transforms, output_transforms |-> output_transforms]

Transforms(input_transforms, output_transforms) ==
  [input_transforms |-> input_transforms, output_transform |-> output_transforms]

StoredBundle(raw, transformed, transforms) ==
  [raw |-> raw, transformed |-> transformed, transforms |-> transforms]

\* Rebinding of output_transforms and feature_types to lists.
TtParse ==
  /\ pc = "tt_parse"
  /\ frame' = [frame EXCEPT
                 !.output_transforms = ParseOutputTransforms(@),
                 !.feature_types = Split(@)]
  /\ pc' = "tt_process"
  /\ UNCHANGED <<args, ret, err, logVars, fsVars, pool>>

TtProcessDatasets ==
  /\ pc = "tt_process"
  /\ \E ok \in BOOLEAN :
       IF ok
       THEN /\ frame' = frame @@ [train_dict |-> ProcessDatasets("train", frame),
                                  test_dict |-> ProcessDatasets("test", frame)]
            /\ pc' = "tt_transform_train"
            /\ UNCHANGED <<args, ret, err, logVars, fsVars, pool>>
       ELSE Raise(LibraryError("process_datasets"))

TtTransformTrain ==
  /\ pc = "tt_transform_train"
  /\ \E ok \in BOOLEAN :
       IF ok
       THEN /\ frame' = frame @@
                 [trans_train_dict |->
                    TransformData(frame.train_dict, frame.input_transforms,
                                  frame.output_transforms)]
            /\ pc' = "tt_transform_test"
            /\ UNCHANGED <<args, ret, err, logVars, fsVars, pool>>
       ELSE Raise(LibraryError("transform_data"))

TtTransformTest ==
  /\ pc = "tt_transform_test"
  /\ \E ok \in BOOLEAN :
       IF ok
       THEN /\ frame' = frame @@
                 [trans_test_dict |->
                    TransformData(frame.test_dict, frame.input_transforms,
                                  frame.output_transforms)]
            /\ pc' = "tt_save_train"
            /\ UNCHANGED <<args, ret, err, logVars, fsVars, pool>>
       ELSE Raise(LibraryError("transform_data"))

\* The bundles are built from one `transforms` dict and the train bundle is
\* saved.
TtSaveTrain ==
  /\ pc = "tt_save_train"
  /\ \E ok \in BOOLEAN :
       IF ok
       THEN /\ bundles' =
                 (frame.train_out :>
                    StoredBundle(frame.train_dict, frame.trans_train_dict,
                                 Transforms(frame.input_transforms,
                                            frame.output_transforms)))
                 @@ bundles
            /\ written' = written \cup {frame.train_out}
            /\ pc' = "tt_save_test"
            /\ UNCHANGED <<args, ret, frame, err, logVars, featdir, models,
                           reports, pool>>
       ELSE Raise(LibraryError("save_sharded_dataset"))

TtSaveTest ==
  /\ pc = "tt_save_test"
  /\ \E ok \in BOOLEAN :
       IF ok
       THEN /\ bundles' =
                 (frame.test_out :>
                    StoredBundle(frame.test_dict, frame.trans_test_dict,
                                 Transforms(frame.input_transforms,
                                            frame.output_transforms)))
                 @@ bundles
            /\ written' = written \cup {frame.test_out}
            /\ Return
            /\ UNCHANGED <<args, err, logVars, featdir, models, reports, pool>>
       ELSE Raise(LibraryError("save_sharded_dataset"))

(***************************************************************************)
(* _fit_model                                                              *)
(***************************************************************************)
FitFrame(model, task_type, hyper, saved_out, saved_data, target_names) ==
  [fn |-> "_fit_model", model |-> model, task_type |-> task_type,
   hyper |-> hyper, saved_out |-> saved_out, saved_data |-> saved_data,
   target_names |-> target_names]

Hyper(ns) ==
  [n_hidden |-> ns.n_hidden, learning_rate |-> ns.learning_rate,
   dropout |-> ns.dropout, n_epochs |-> ns.n_epochs, decay |-> ns.decay,
   batch_size |-> ns.batch_size, loss_function |-> ns.loss_function,
   validation_split |-> ns.validation_split]

\* Bundle keys _fit_model subscripts.
FitBundleReads == {"transformed"}

\* The library function the model name dispatches to.
FitFunction(model) ==
  IF model = "singletask_deep_network" THEN "fit_singletask_mlp"
  ELSE IF model = "multitask_deep_network" THEN "fit_multitask_mlp"
  ELSE IF model = "3D_cnn" THEN "fit_3D_convolution"
  ELSE "fit_singletask_models"

\* load_sharded_dataset(saved_data) and stored_train["transformed"].
FitLoad ==
  /\ pc = "fit_load"
  /\ \E ok \in BOOLEAN :
       IF ok /\ frame.saved_data \in DOMAIN bundles
       THEN IF FitBundleReads \subseteq DOMAIN bundles[frame.saved_data]
            THEN /\ frame' = frame @@
                      [train_dict |-> bundles[frame.saved_data].transformed]
                 /\ pc' = "fit_train"
                 /\ UNCHANGED <<args, ret, err, logVars, fsVars, pool>>
            ELSE Raise([exc |-> "KeyError", what |-> "transformed"])
       ELSE Raise(LibraryError("load_sharded_dataset"))

FitTrain ==
  /\ pc = "fit_train"
  /\ \E ok \in BOOLEAN :
       IF ok
       THEN /\ frame' = frame @@
                 [models |-> [fitted_by |-> FitFunction(frame.model),
                              trained_on |-> frame.train_dict]]
            /\ pc' = "fit_save"
            /\ UNCHANGED <<args, ret, err, logVars, fsVars, pool>>
       ELSE Raise(LibraryError(FitFunction(frame.model)))

\* modeltype = get_model_type(model); save_model(models, modeltype, saved_out)
FitSave ==
  /\ pc = "fit_save"
  /\ \E ok \in BOOLEAN :
       IF ok
       THEN /\ models' =
                 (frame.saved_out :>
                    [modeltype |-> get_model_type(frame.model),
                     models |-> frame.models])
                 @@ models
            /\ written' = written \cup {frame.saved_out}
            /\ Return
            /\ UNCHANGED <<args, err, logVars, featdir, bundles, reports, pool>>
       ELSE Raise(LibraryError("save_model"))

(***************************************************************************)
(* _eval_trained_model                                                     *)
(***************************************************************************)
EvalFrame(modeltype, saved_model, saved_data, task_type, metrics, csv_out, stats_out, target_names) ==
  [fn |-> "_eval_trained_model", modeltype |-> modeltype,
   saved_model |-> saved_model, saved_data |-> saved_data,
   task_type |-> task_type, metrics |-> metrics, csv_out |-> csv_out,
   stats_out |-> stats_out, target_names |-> target_names]

\* Bundle keys _eval_trained_model subscripts, and the key it subscripts
\* under "transforms".
EvalBundleReads == {"transformed", "raw", "transforms"}
EvalTransformReads == {"output_transform"}

\* The first key of a bundle lookup that is missing, "none" when all are
\* there, in the order the code subscripts.
EvalMissingKey(b) ==
  IF "transformed" \notin DOMAIN b THEN "transformed"
  ELSE IF "raw" \notin DOMAIN b THEN "raw"
  ELSE IF "transforms" \notin DOMAIN b THEN "transforms"
  ELSE IF ~(EvalTransformReads \subseteq DOMAIN b.transforms)
       THEN "output_transform"
       ELSE "none"

EvLoadModel ==
  /\ pc = "ev_load_model"
  /\ \E ok \in BOOLEAN :
       IF ok /\ frame.saved_model \in DOMAIN models
       THEN /\ frame' = frame @@ [model |-> models[frame.saved_model]]
            /\ pc' = "ev_load_data"
            /\ UNCHANGED <<args, ret, err, logVars, fsVars, pool>>
       ELSE Raise(LibraryError("load_model"))

EvLoadData ==
  /\ pc = "ev_load_data"
  /\ \E ok \in BOOLEAN :
       IF ok /\ frame.saved_data \in DOMAIN bundles
       THEN IF EvalMissingKey(bundles[frame.saved_data]) = "none"
            THEN /\ frame' = frame @@
                      [test_dict |-> bundles[frame.saved_data].transformed,
                       raw_test_dict |-> bundles[frame.saved_data].raw,
                       output_transforms |->
                         bundles[frame.saved_data].transforms.output_transform]
                 /\ pc' = "ev_compute"
                 /\ UNCHANGED <<args, ret, err, logVars, fsVars, pool>>
            ELSE Raise([exc |-> "KeyError",
                        what |-> EvalMissingKey(bundles[frame.saved_data])])
       ELSE Raise(LibraryError("load_sharded_dataset"))

\* compute_model_performance prints the statistics into stats_out.
EvCompute ==
  /\ pc = "ev_compute"
  /\ \E ok \in BOOLEAN :
       IF ok
       THEN /\ reports' =
                 (frame.stats_out :>
                    [kind |-> "stats", metrics |-> frame.metrics,
                     modeltype |-> frame.modeltype,
                     saved_data |-> frame.saved_data])
                 @@ reports
            /\ written' = written \cup {frame.stats_out}
            /\ pc' = "ev_csv"
            /\ UNCHANGED <<args, ret, frame, err, logVars, featdir, bundles,
                           models, pool>>
       ELSE Raise(LibraryError("compute_model_performance"))

EvResultsToCsv ==
  /\ pc = "ev_csv"
  /\ \E ok \in BOOLEAN :
       IF ok
       THEN /\ reports' =
                 (frame.csv_out :>
                    [kind |-> "csv", metrics |-> frame.metrics,
                     modeltype |-> frame.modeltype,
                     saved_data |-> frame.saved_data])
                 @@ reports
            /\ written' = written \cup {frame.csv_out}
            /\ Return
            /\ UNCHANGED <<args, err, logVars, featdir, bundles, models, pool>>
       ELSE Raise(LibraryError("results_to_csv"))

(***************************************************************************)
(* Entering a stage function.                                              *)
(***************************************************************************)
Enter(f, stage, first, r) ==
  /\ frame' = f
  /\ pc' = first
  /\ ret' = r
  /\ stageLog' = Append(stageLog, stage)

EnterFeaturize(f, r) ==
  /\ Enter(f, "featurize", "fz_validate", r)
  /\ UNCHANGED <<args, err, libCalls, evalLog, fitLog, fsVars, pool>>

EnterTrainTest(f, r) ==
  /\ Enter(f, "split", "tt_parse", r)
  /\ UNCHANGED <<args, err, libCalls, evalLog, fitLog, fsVars, pool>>

EnterFit(f, r) ==
  /\ Enter(f, "fit", "fit_load", r)
  /\ fitLog' = Append(fitLog,
                      [model |-> f.model, task_type |-> f.task_type,
                       saved_out |-> f.saved_out, saved_data |-> f.saved_data])
  /\ UNCHANGED <<args, err, libCalls, evalLog, fsVars, pool>>

EnterEval(f, r) ==
  /\ Enter(f, "eval", "ev_load_model", r)
  /\ evalLog' = Append(evalLog,
                       [modeltype |-> f.modeltype, saved_model |-> f.saved_model,
                        saved_data |-> f.saved_data, task_type |-> f.task_type,
                        metrics |-> f.metrics, csv_out |-> f.csv_out,
                        stats_out |-> f.stats_out])
  /\ UNCHANGED <<args, err, libCalls, fitLog, fsVars, pool>>

(***************************************************************************)
(* main() and the subcommand handlers                                      *)
(***************************************************************************)
\* args.func(args)
Main ==
  /\ pc = "main"
  /\ pc' = args.func
  /\ UNCHANGED <<args, ret, frame, err, logVars, fsVars, pool>>

\* mp.cpu_count() of the machine the pool would start on.
CpuCount == 2

\* The featurize handler.  Its callee, _featurize_inputs, starts the process
\* pool and maps _featurize_input over the input files.
FeaturizeInput ==
  /\ pc = "featurize_input"
  /\ IF featurize_input(args) = NoErr
     THEN /\ pool' = pool + CpuCount
          /\ pc' = "done"
          /\ UNCHANGED <<args, ret, frame, err, logVars, fsVars>>
     ELSE Raise(featurize_input(args))

TrainTestInput ==
  /\ pc = "train_test_input"
  /\ IF train_test_input(args) = NoErr
     THEN EnterTrainTest(
            TrainTestFrame(args.paths, args.output_transforms,
                           args.input_transforms, args.feature_types,
                           args.splittype, args.mode, args.train_out,
                           args.test_out, args.target_fields),
            "done")
     ELSE Raise(train_test_input(args))

FitModel ==
  /\ pc = "fit_model"
  /\ IF fit_model(args) = NoErr
     THEN EnterFit(FitFrame(args.model, args.task_type, Hyper(args),
                            args.saved_out, args.saved_data, args.target_fields),
                   "done")
     ELSE Raise(fit_model(args))

EvalTrainedModel ==
  /\ pc = "eval_trained_model"
  /\ IF eval_trained_model(args) = NoErr
     THEN EnterEval(EvalFrame(args.modeltype, args.saved_model, args.saved_data,
                              args.task_type, MetricsOf(args), args.csv_out,
                              args.stats_out, args.target_fields),
                    "done")
     ELSE Raise(eval_trained_model(args))

\* A direct call _featurize_input(...) by an importing program; `args` holds
\* the call's arguments.
CallFeaturizeInput ==
  /\ pc = "call"
  /\ EnterFeaturize(
       FeaturizeFrame(args.name, args.out, args.input_file, args.input_type,
                      args.fields, args.field_types, args.feature_fields,
                      args.target_fields, args.smiles_field, args.split_field,
                      args.id_field, args.threshold, args.delimiter),
       "done")

(***************************************************************************)
(* create_model, one step per stage                                        *)
(***************************************************************************)
CmFeaturize ==
  /\ pc = "create_model"
  /\ IF create_model_featurize(args) # NoErr
     THEN Raise(create_model_featurize(args))
     ELSE IF args.skip_featurization
          THEN /\ pc' = "cm_split"
               /\ UNCHANGED <<args, ret, frame, err, logVars, fsVars, pool>>
          ELSE EnterFeaturize(
                 FeaturizeFrame(args.name, args.out, args.input_file,
                                args.input_type, args.fields, args.field_types,
                                args.feature_fields, args.target_fields,
                                args.smiles_field, args.split_field,
                                args.id_field, args.threshold, args.delimiter),
                 "cm_split")

CmSplit ==
  /\ pc = "cm_split"
  /\ IF create_model_split(args) # NoErr
     THEN Raise(create_model_split(args))
     ELSE IF args.skip_train_test_split
          THEN /\ pc' = "cm_fit"
               /\ UNCHANGED <<args, ret, frame, err, logVars, fsVars, pool>>
          ELSE EnterTrainTest(
                 TrainTestFrame(<<DataDir(args)>>, args.output_transforms,
                                args.input_transforms, args.feature_types,
                                args.splittype, args.mode, TrainOut(args),
                                TestOut(args), args.target_fields),
                 "cm_fit")

CmFit ==
  /\ pc = "cm_fit"
  /\ IF create_model_fit(args) # NoErr
     THEN Raise(create_model_fit(args))
     ELSE IF args.skip_fit
          THEN /\ pc' = "cm_eval_train"
               /\ UNCHANGED <<args, ret, frame, err, logVars, fsVars, pool>>
          ELSE EnterFit(FitFrame(args.model, args.task_type, Hyper(args),
                                 SavedOut(args), TrainOut(args),
                                 args.target_fields),
                        "cm_eval_train")

CmEvalTrain ==
  /\ pc = "cm_eval_train"
  /\ IF create_model_eval(args) # NoErr
     THEN Raise(create_model_eval(args))
     ELSE EnterEval(EvalFrame(get_model_type(args.model), SavedOut(args),
                              TrainOut(args), args.task_type,
                              MetricsFor(args.task_type), CsvOutTrain(args),
                              StatsOutTrain(args), args.target_fields),
                    "cm_eval_test")

CmEvalTest ==
  /\ pc = "cm_eval_test"
  /\ IF create_model_eval(args) # NoErr
     THEN Raise(create_model_eval(args))
     ELSE EnterEval(EvalFrame(get_model_type(args.model), SavedOut(args),
                              TestOut(args), args.task_type,
                              MetricsFor(args.task_type), CsvOutTest(args),
                              StatsOutTest(args), args.target_fields),
                    "done")

(***************************************************************************)
(* Runs                                                                    *)
(***************************************************************************)
\* Field lists of a command line (nargs="+": never empty).
CliFieldLists == {<<"smiles", "pIC50">>}
CliFieldTypeLists == {<<"string", "float">>, <<"string">>}

FeaturizeNamespaces ==
  {add_featurize_group(f, t, None) : f \in CliFieldLists, t \in CliFieldTypeLists}

TrainTestNamespaces ==
  {add_train_test_command(ot, it) :
     ot \in OutputTransformStrings, it \in InputTransformLists}

FitNamespaces ==
  {add_fit_command(m, t) : m \in ModelChoices, t \in TaskTypes}

EvalNamespaces ==
  {add_eval_command(mt, t, a, b, c, d, e, f) :
     mt \in EvalModelTypes, t \in TaskTypes, a \in BOOLEAN, b \in BOOLEAN,
     c \in BOOLEAN, d \in BOOLEAN, e \in BOOLEAN, f \in BOOLEAN}

ModelNamespaces ==
  {add_model_command(sf, ss, sfit, f, t, None, ot, it, m, tt) :
     sf \in BOOLEAN, ss \in BOOLEAN, sfit \in BOOLEAN, f \in CliFieldLists,
     t \in CliFieldTypeLists, ot \in OutputTransformStrings,
     it \in InputTransformLists, m \in ModelChoices, tt \in TaskTypes}

\* Argument lists of a direct call of _featurize_input.
DirectCalls ==
  {[func |-> "_featurize_input", name |-> "ds", out |-> "/o",
    input_file |-> "in.csv", input_type |-> "csv", fields |-> f,
    field_types |-> t, feature_fields |-> None, target_fields |-> <<"pIC50">>,
    smiles_field |-> sm, split_field |-> None, id_field |-> i,
    threshold |-> None, delimiter |-> ","] :
     f \in FieldLists, t \in FieldTypeLists, i \in IdFields,
     sm \in SmilesFields}

\* What an earlier `model` run with the same arguments left in the dataset
\* directory: nothing, the two bundles, or the bundles and the model.
SplitLocals(ns) ==
  [TrainTestFrame(<<DataDir(ns)>>, ns.output_transforms, ns.input_transforms,
                  ns.feature_types, ns.splittype, ns.mode, TrainOut(ns),
                  TestOut(ns), ns.target_fields)
     EXCEPT !.output_transforms = ParseOutputTransforms(@),
            !.feature_types = Split(@)]

BundleOf(split, f) ==
  StoredBundle(ProcessDatasets(split, f),
               TransformData(ProcessDatasets(split, f), f.input_transforms,
                             f.output_transforms),
               Transforms(f.input_transforms, f.output_transforms))

PriorBundles(ns) ==
  (TrainOut(ns) :> BundleOf("train", SplitLocals(ns)))
    @@ (TestOut(ns) :> BundleOf("test", SplitLocals(ns)))

PriorModels(ns) ==
  SavedOut(ns) :>
    [modeltype |-> get_model_type(ns.model),
     models |-> [fitted_by |-> FitFunction(ns.model),
                 trained_on |-> BundleOf("train", SplitLocals(ns)).transformed]]

Priors == {"nothing", "bundles", "bundles and model"}

Init ==
  /\ args \in FeaturizeNamespaces \cup TrainTestNamespaces \cup FitNamespaces
                \cup EvalNamespaces \cup ModelNamespaces \cup DirectCalls
  /\ pc = IF args.func = "_featurize_input" THEN "call" ELSE "main"
  /\ ret = "done"
  /\ frame = NoFrame
  /\ err = NoErr
  /\ stageLog = <<>>
  /\ libCalls = <<>>
  /\ evalLog = <<>>
  /\ fitLog = <<>>
  /\ featdir = {}
  /\ \E prior \in Priors :
       /\ prior # "nothing" => args.func = "create_model"
       /\ bundles = IF prior = "nothing" THEN EmptyFiles ELSE PriorBundles(args)
       /\ models = IF prior = "bundles and model" THEN PriorModels(args)
                   ELSE EmptyFiles
  /\ reports = EmptyFiles
  /\ written = {}
  /\ pool = 0

Next ==
  \/ Main
  \/ FeaturizeInput
  \/ TrainTestInput
  \/ FitModel
  \/ EvalTrainedModel
  \/ CallFeaturizeInput
  \/ CmFeaturize
  \/ CmSplit
  \/ CmFit
  \/ CmEvalTrain
  \/ CmEvalTest
  \/ FzValidate
  \/ FzGenerateDirectories
  \/ FzExtractData
  \/ FzGenerateTargets
  \/ FzGenerateFeatures
  \/ FzFingerprints
  \/ FzDescriptors
  \/ TtParse
  \/ TtProcessDatasets
  \/ TtTransformTrain
  \/ TtTransformTest
  \/ TtSaveTrain
  \/ TtSaveTest
  \/ FitLoad
  \/ FitTrain
  \/ FitSave
  \/ EvLoadModel
  \/ EvLoadData
  \/ EvCompute
  \/ EvResultsToCsv

Spec == Init /\ [][Next]_vars

(***************************************************************************)
(* Properties                                                              *)
(***************************************************************************)
Ended == pc \in {"done", "raised"}
IsModelRun == args.func = "create_model"
Entered(stage) == \E i \in DOMAIN stageLog : stageLog[i] = stage

\* C1: _featurize_input raises ValueError as soon as the number of fields
\* differs from the number of field types, before any library call has run
\* and with nothing written; with equal counts no ValueError is raised.
C1_FieldCountValidation ==
  Entered("featurize") =>
    IF Len(args.fields) # Len(args.field_types)
    THEN /\ pc = "fz_validate" \/ (pc = "raised" /\ err.exc = "ValueError")
         /\ libCalls = <<>>
         /\ featdir = {}
         /\ written = {}
    ELSE err.exc # "ValueError"

C1_Witness ==
  /\ Entered("featurize")
  /\ Len(args.fields) # Len(args.field_types)
  /\ pc = "raised"
  /\ err.exc = "ValueError"
  /\ libCalls = <<>>

\* C2: a `model` run with no skip flag that ends without a library failure
\* or a validation error has entered exactly featurize, split, fit, eval,
\* eval in that order, the first evaluation on the train bundle and the
\* second on the test bundle.
C2_FullRunOrder ==
  (/\ IsModelRun
   /\ ~args.skip_featurization
   /\ ~args.skip_train_test_split
   /\ ~args.skip_fit
   /\ Ended
   /\ err.exc \notin {"LibraryError", "ValueError"})
  => /\ stageLog = <<"featurize", "split", "fit", "eval", "eval">>
     /\ Len(evalLog) = 2
     /\ evalLog[1].saved_data = TrainOut(args)
     /\ evalLog[2].saved_data = TestOut(args)

\* C3: each of the subcommands featurize, train-test-split, fit and eval,
\* invoked with its required flags, reaches its stage function: no name or
\* attribute lookup of its handler fails.
C3_StagesInvocable ==
  args.func \in {"featurize_input", "train_test_input", "fit_model",
                 "eval_trained_model"}
  => err.exc \notin {"NameError", "AttributeError"}

\* C4: every saved dataset bundle holds every key fit and eval subscript
\* ("transformed", "raw", "transforms" and, under "transforms",
\* "output_transform"), and no stage ever fails on a missing bundle key.
C4_BundleSchema ==
  /\ \A p \in DOMAIN bundles :
       /\ FitBundleReads \cup EvalBundleReads \subseteq DOMAIN bundles[p]
       /\ EvalTransformReads \subseteq DOMAIN bundles[p].transforms
  /\ err.exc # "KeyError"

C4_Witness ==
  /\ pc = "ev_compute"
  /\ frame.saved_data \in written
  /\ Entered("fit")

\* C5: for every accepted --model name the type tag is one the eval stage
\* accepts and its extension is joblib (sklearn) or h5 (both keras types);
\* in a `model` run every evaluation loads with the tag the run's fit saved
\* with.
C5_ModelTypeTag ==
  /\ "model" \in DOMAIN args =>
       /\ get_model_type(args.model) \in EvalModelTypes
       /\ get_model_extension(get_model_type(args.model)) =
            IF get_model_type(args.model) = "sklearn" THEN "joblib" ELSE "h5"
  /\ IsModelRun =>
       \A i \in DOMAIN evalLog :
         /\ evalLog[i].modeltype \in EvalModelTypes
         /\ evalLog[i].saved_model \in written =>
              models[evalLog[i].saved_model].modeltype = evalLog[i].modeltype

C5_Witness ==
  /\ IsModelRun
  /\ args.model = "3D_cnn"
  /\ pc = "ev_load_data"
  /\ frame.saved_model \in written
  /\ frame.model.modeltype = "keras-sequential"

\* C6: in a `model` run both evaluations are asked for exactly AUC, recall,
\* accuracy and Matthews correlation when the task is classification, and
\* for exactly R^2 and RMS when it is regression.
C6_TaskMetrics ==
  IsModelRun =>
    \A i \in DOMAIN evalLog :
      evalLog[i].metrics =
        IF args.task_type = "classification"
        THEN {"aucs", "recall", "accuracy", "matthews_corrcoef"}
        ELSE {"r2s", "rms"}

C6_Witness ==
  /\ IsModelRun
  /\ args.task_type = "regression"
  /\ Len(evalLog) = 2
  /\ evalLog[1].metrics = evalLog[2].metrics
  /\ pc = "done"

\* C7: a step is only ever taken while no exception has been raised, and a
\* step that raises ends the run there: the failed step is not taken again
\* and no further stage is entered.
C7_FailurePropagates ==
  [][/\ err = NoErr
     /\ pc # "raised"
     /\ err' # NoErr => pc' = "raised" /\ stageLog' = stageLog]_vars

C7_Witness ==
  /\ IsModelRun
  /\ pc = "raised"
  /\ err = LibraryError("fit_singletask_models")
  /\ stageLog = <<"split", "fit">>

\* C8: no run ever starts a process pool, so a single process executes all
\* stage code.
C8_NoProcessPool == pool = 0

C8_Witness ==
  /\ args.func = "featurize_input"
  /\ pc = "raised"
  /\ err.exc = "NameError"
  /\ pool = 0

\* The stages a `model` run is to enter under its skip flags.
StagesFor(ns) ==
  (IF ns.skip_featurization THEN <<>> ELSE <<"featurize">>)
    \o (IF ns.skip_train_test_split THEN <<>> ELSE <<"split">>)
    \o (IF ns.skip_fit THEN <<>> ELSE <<"fit">>)
    \o <<"eval", "eval">>

\* C9: a `model` run that ends without a library failure or a validation
\* error has entered exactly the stages its skip flags leave, in pipeline
\* order, with both evaluations, on the paths of a run with no flag set.
C9_SkipFlags ==
  (IsModelRun /\ Ended /\ err.exc \notin {"LibraryError", "ValueError"})
  => /\ stageLog = StagesFor(args)
     /\ Len(evalLog) = 2
     /\ evalLog[1].saved_data = TrainOut(args)
     /\ evalLog[2].saved_data = TestOut(args)
     /\ \A i \in DOMAIN evalLog : evalLog[i].saved_model = SavedOut(args)

\* The pieces joined with commas.
RECURSIVE JoinComma(_)
JoinComma(list) ==
  IF list = <<>> THEN <<>>
  ELSE IF Len(list) = 1 THEN list[1]
  ELSE list[1] \o <<",">> \o JoinComma(Tail(list))

\* `list` is what the flag value `s` means.
MeansTransforms(s, list) ==
  IF s = <<>> \/ s = NoneString
  THEN list = <<>>
  ELSE /\ list # <<>>
       /\ JoinComma(list) = s
       /\ \A i \in DOMAIN list : \A j \in DOMAIN list[i] : list[i][j] # ","

\* C10: a bundle the split stage has saved records the input transforms as
\* given and the output transforms the flag value means ("" and "None": none;
\* otherwise the comma-separated pieces in order), and its transformed data
\* had exactly these two lists applied; so for the train and the test bundle
\* alike.
C10_OutputTransforms ==
  \A p \in written \cap DOMAIN bundles :
    /\ MeansTransforms(args.output_transforms,
                       bundles[p].transforms.output_transform)
    /\ bundles[p].transforms.input_transforms = args.input_transforms
    /\ bundles[p].transformed.output_transforms =
         bundles[p].transforms.output_transform
    /\ bundles[p].transformed.input_transforms = args.input_transforms

C10_Witness ==
  /\ IsModelRun
  /\ {TrainOut(args), TestOut(args)} \subseteq written
  /\ args.output_transforms = <<"l", ",", "l">>
  /\ bundles[TrainOut(args)].transforms.output_transform = <<<<"l">>, <<"l">>>>
  /\ bundles[TestOut(args)].transforms = bundles[TrainOut(args)].transforms

\* The library calls of _featurize_input that take the molecule identifier.
IdCalls ==
  {"generate_targets", "generate_features",
   "generate_vs_utils_features:fingerprints",
   "generate_vs_utils_features:descriptors"}

\* C11: every generation call of the featurize stage (targets, user
\* features, fingerprints, descriptors) is passed the SMILES field as the
\* identifier when no id field was given, and the given id field unchanged
\* otherwise; the SMILES field itself is passed as given.
C11_IdFieldDefault ==
  Entered("featurize") =>
    \A i \in DOMAIN libCalls :
      libCalls[i].fn \in IdCalls =>
        /\ libCalls[i].smiles_field = args.smiles_field
        /\ libCalls[i].id_field =
             IF args.id_field = None THEN args.smiles_field ELSE args.id_field

C11_Witness ==
  /\ Entered("featurize")
  /\ args.id_field = None
  /\ args.smiles_field = "smi"
  /\ pc = "done"
  /\ {libCalls[i].fn : i \in DOMAIN libCalls} \cap IdCalls = IdCalls
  /\ \A i \in DOMAIN libCalls :
       libCalls[i].fn \in IdCalls => libCalls[i].id_field = "smi"

\* The artifact paths of a `model` run, spelled out from its arguments.
TrainBundlePath(ns) == ns.out \o "/" \o ns.name \o "/" \o ns.name \o "-train.joblib"
TestBundlePath(ns) == ns.out \o "/" \o ns.name \o "/" \o ns.name \o "-test.joblib"
ModelPath(ns) ==
  ns.out \o "/" \o ns.name \o "/" \o ns.model \o "." \o
    (IF ns.model \in {"singletask_deep_network", "multitask_deep_network", "3D_cnn"}
     THEN "h5" ELSE "joblib")

\* C12: in a `model` run fit reads the train bundle path and saves the model
\* at <out>/<name>/<model>.<extension>; both evaluations load the model from
\* that path, the first reads the train bundle and the second the test
\* bundle; and when a stage is entered, every artifact it reads whose
\* producing stage was not skipped has been written in this run.
C12_ArtifactHandoff ==
  IsModelRun =>
    /\ \A i \in DOMAIN fitLog :
         /\ fitLog[i].saved_data = TrainBundlePath(args)
         /\ fitLog[i].saved_out = ModelPath(args)
         /\ ~args.skip_train_test_split => TrainBundlePath(args) \in written
    /\ Len(evalLog) <= 2
    /\ \A i \in DOMAIN evalLog :
         /\ evalLog[i].saved_model = ModelPath(args)
         /\ evalLog[i].saved_data =
              IF i = 1 THEN TrainBundlePath(args) ELSE TestBundlePath(args)
         /\ ~args.skip_fit =>
              /\ ModelPath(args) \in written
              /\ models[ModelPath(args)].models.trained_on =
                   bundles[TrainBundlePath(args)].transformed
         /\ ~args.skip_train_test_split =>
              {TrainBundlePath(args), TestBundlePath(args)} \subseteq written
    /\ \A p \in written \cap DOMAIN bundles :
         p \in {TrainBundlePath(args), TestBundlePath(args)}
    /\ \A p \in written \cap DOMAIN models : p = ModelPath(args)

C12_Witness ==
  /\ IsModelRun
  /\ ~args.skip_train_test_split
  /\ ~args.skip_fit
  /\ args.model = "multitask_deep_network"
  /\ pc = "done"
  /\ Len(evalLog) = 2
  /\ evalLog[1].saved_data = "/o/ds/ds-train.joblib"
  /\ evalLog[2].saved_data = "/o/ds/ds-test.joblib"
  /\ evalLog[2].saved_model = "/o/ds/multitask_deep_network.h5"
  /\ {"/o/ds/ds-train.joblib", "/o/ds/ds-test.joblib",
      "/o/ds/multitask_deep_network.h5"} \subseteq written

====
